---- MODULE Spec2Model ----
(***************************************************************************)
(* A model of translate-po-multiple.py: the placeholder codec, the         *)
(* translation cache, translate_string / translate_batch and the run of    *)
(* main() in its three modes, with checkpoints, crash and --resume.        *)
(*                                                                         *)
(* Texts are sequences of one-character strings, so that the regular       *)
(* expressions, str.replace and the cache key are computed character by    *)
(* character as the code computes them.                                    *)
(***************************************************************************)
EXTENDS Integers, Sequences, FiniteSets, TLC

VARIABLES
    cText,      \* codec: the text given to isolate_html_and_variables
    cIso,       \* codec: its result (cleaned_text, html_tags, variables)
    cOut,       \* codec: the result of reinsert_html_and_variables
    cPc,        \* codec: "start" | "isolated" | "reinserted" | "idle"
    cache,      \* CACHE_DIR: key of each existing file |-> what it holds
    cacheOp,    \* the last call of save_to_cache / get_cached_translation
    putLog,     \* the calls of save_to_cache so far: triple, value, storage condition
    provider,   \* the stub provider: the texts it fails on, whether bulk calls fail
    call,       \* the last call of translate_string / translate_batch, with its result
    args,       \* the command line: api, batch_size, parallel, no_cache, resume
    environ,    \* the environment: storage condition, GOOGLE_CLOUD_PROJECT
    inputPo,    \* the catalog file at input_file: entries [msgid, msgstr]
    po,         \* the catalog in memory
    untranslated, \* the entries (indices into po) this run works on
    start_index,
    pc,         \* "init" | "batch" | "parallel" | "sequential" | "done"
    pos,        \* batch_start, completed or idx: entries of this run dealt with
    running,    \* parallel mode: the tasks (positions in untranslated) workers hold
    finished,   \* parallel mode: results of tasks not yet taken by the main thread
    outFile,    \* the catalog file at output_file
    progress,   \* the Progress Marker file
    failed,     \* the entries whose translation raised in this run
    lastStep,   \* what the last step did
    runNo       \* 1, or 2 after an interruption and restart

codecVars == <<cText, cIso, cOut, cPc>>
cacheVars == <<cache, cacheOp, putLog>>
callVars == <<provider, call>>
runVars == <<args, environ, inputPo, po, untranslated, start_index, pc, pos, running, finished,
             outFile, progress, failed, lastStep, runNo>>

vars == <<cText, cIso, cOut, cPc, cache, cacheOp, putLog, provider, call,
          args, environ, inputPo, po, untranslated, start_index, pc, pos, running, finished,
          outFile, progress, failed, lastStep, runNo>>

-----------------------------------------------------------------------------
(* Strings *)

None == <<"None">>

\* The sequence f[1..n], written out.
Listed(f, n) == SubSeq(f, 1, n)

\* s[i..j], empty when j < i (Python's s[i-1:j]).
Slice(s, i, j) == IF j < i THEN <<>> ELSE SubSeq(s, i, j)

\* Whether `old` occurs in `s` at index i.
OccursAt(s, old, i) ==
    /\ i >= 1
    /\ i + Len(old) - 1 <= Len(s)
    /\ \A k \in 1..Len(old) : s[i + k - 1] = old[k]

\* str.find: the first index at which `old` occurs in `s`, 0 when it does not.
Find(s, old) ==
    LET hits == {i \in 1..Len(s) : OccursAt(s, old, i)}
    IN  IF hits = {} THEN 0 ELSE CHOOSE i \in hits : \A j \in hits : i <= j

\* str.replace(old, new, 1): the first occurrence replaced, if there is one.
ReplaceFirst(s, old, new) ==
    LET i == Find(s, old)
    IN  IF i = 0 THEN s
        ELSE Slice(s, 1, i - 1) \o new \o Slice(s, i + Len(old), Len(s))

-----------------------------------------------------------------------------
(* Placeholder codec *)

HTML_PLACEHOLDER == <<"{", "{", "H", "T", "M", "L", "}", "}">>
VAR_PLACEHOLDER == <<"{", "{", "V", "A", "R", "}", "}">>

Digits == {"0", "1", "2", "3", "4", "5", "6", "7", "8", "9"}

\* re.compile(r'<[^>]+>'): the end of the match that starts at i, 0 when
\* there is none. [^>]+ takes one or more characters up to the first '>'.
HTML_TAG_PATTERN(s, i) ==
    IF i > Len(s) \/ s[i] # "<" THEN 0
    ELSE LET closes == {j \in (i + 1)..Len(s) : s[j] = ">"}
         IN  IF closes = {} THEN 0
             ELSE LET j == CHOOSE c \in closes : \A d \in closes : c <= d
                  IN  IF j >= i + 2 THEN j ELSE 0

\* r'%[sd]|{[0-9A-Z]+}': a pattern that also takes the inside of a sentinel
\* for a variable.
VARIABLE_PATTERN_capitals(s, i) ==
    IF i > Len(s) THEN 0
    ELSE IF s[i] = "%"
    THEN IF i + 1 <= Len(s) /\ s[i + 1] \in {"s", "d"} THEN i + 1 ELSE 0
    ELSE IF s[i] = "{"
    THEN LET stops == {j \in (i + 1)..Len(s) : s[j] \notin Digits \cup {"H", "T", "M", "L", "V", "A", "R"}}
         IN  IF stops = {} THEN 0
             ELSE LET j == CHOOSE c \in stops : \A d \in stops : c <= d
                  IN  IF j >= i + 2 /\ s[j] = "}" THEN j ELSE 0
    ELSE 0

\* re.compile(r'%[sd]|{[0-9]+}'): the end of the match that starts at i, 0
\* when there is none.
VARIABLE_PATTERN(s, i) ==
    IF i > Len(s) THEN 0
    ELSE IF s[i] = "%"
    THEN IF i + 1 <= Len(s) /\ s[i + 1] \in {"s", "d"} THEN i + 1 ELSE 0
    ELSE IF s[i] = "{"
    THEN LET stops == {j \in (i + 1)..Len(s) : s[j] \notin Digits}
         IN  IF stops = {} THEN 0
             ELSE LET j == CHOOSE c \in stops : \A d \in stops : c <= d
                  IN  IF j >= i + 2 /\ s[j] = "}" THEN j ELSE 0
    ELSE 0

MatchEnd(pat, s, i) ==
    IF pat = "html" THEN HTML_TAG_PATTERN(s, i) ELSE VARIABLE_PATTERN(s, i)

\* pattern.findall(s): the non-overlapping matches, leftmost first.
RECURSIVE FindAllFrom(_, _, _)
FindAllFrom(pat, s, i) ==
    IF i > Len(s) THEN <<>>
    ELSE LET e == MatchEnd(pat, s, i)
         IN  IF e = 0 THEN FindAllFrom(pat, s, i + 1)
             ELSE <<SubSeq(s, i, e)>> \o FindAllFrom(pat, s, e + 1)

FindAll(pat, s) == FindAllFrom(pat, s, 1)

\* pattern.sub(repl, s): every non-overlapping match replaced by repl.
RECURSIVE SubFrom(_, _, _, _)
SubFrom(pat, repl, s, i) ==
    IF i > Len(s) THEN <<>>
    ELSE LET e == MatchEnd(pat, s, i)
         IN  IF e = 0 THEN <<s[i]>> \o SubFrom(pat, repl, s, i + 1)
             ELSE repl \o SubFrom(pat, repl, s, e + 1)

Sub(pat, repl, s) == SubFrom(pat, repl, s, 1)

\* Both findall calls read the original text; the second sub reads the text
\* the first sub produced.
isolate_html_and_variables(text) ==
    LET html_tags == FindAll("html", text)
        variables == FindAll("var", text)
        cleaned1  == Sub("html", HTML_PLACEHOLDER, text)
        cleaned2  == Sub("var", VAR_PLACEHOLDER, cleaned1)
    IN  [cleaned_text |-> cleaned2, html_tags |-> html_tags, variables |-> variables]

RECURSIVE ReplaceEach(_, _, _, _)
ReplaceEach(text, placeholder, items, k) ==
    IF k > Len(items) THEN text
    ELSE ReplaceEach(ReplaceFirst(text, placeholder, items[k]), placeholder, items, k + 1)

reinsert_html_and_variables(text, html_tags, variables) ==
    LET afterTags == ReplaceEach(text, HTML_PLACEHOLDER, html_tags, 1)
    IN  ReplaceEach(afterTags, VAR_PLACEHOLDER, variables, 1)

-----------------------------------------------------------------------------
(* Translation cache *)

Bar == <<"|">>

DEEPL == <<"d", "e", "e", "p", "l">>
DEEPSEEK == <<"d", "e", "e", "p", "s", "e", "e", "k">>
AZURE == <<"a", "z", "u", "r", "e">>
GOOGLE == <<"g", "o", "o", "g", "l", "e">>

\* argparse choices of --api.
APIS == {DEEPL, DEEPSEEK, AZURE, GOOGLE}

\* What a cache file holds after a pickle.dump that failed part-way.
Corrupt == <<"Corrupt">>

\* hashlib.md5 is taken as injective on the content string, so the key is
\* the content string f"{text}|{target_lang}|{api}" itself.
get_cache_key(text, target_lang, api) ==
    text \o Bar \o target_lang \o Bar \o api

\* A lookup that hands out what the file holds whether or not it loads.
get_cached_translation_unchecked(c, text, target_lang, api, io) ==
    LET cache_key == get_cache_key(text, target_lang, api)
    IN  IF cache_key \in DOMAIN c THEN c[cache_key] ELSE None

\* A lookup that never finds anything.
get_cached_translation_miss(c, text, target_lang, api, io) == None

\* `c` is the cache directory: a function from the keys of the files that
\* exist to what each file holds. `io` is the condition of the storage:
\* "ok", "read_error", "write_open_error" or "write_dump_error".
get_cached_translation(c, text, target_lang, api, io) ==
    LET cache_key == get_cache_key(text, target_lang, api)
    IN  IF cache_key \in DOMAIN c
        THEN IF io = "read_error" \/ c[cache_key] = Corrupt
             THEN None
             ELSE c[cache_key]
        ELSE None

WriteFile(c, key, content) == (key :> content) @@ c

\* A save that leaves an existing file alone.
save_to_cache_keep_existing(c, text, target_lang, api, translation, io) ==
    LET cache_key == get_cache_key(text, target_lang, api)
    IN  IF io = "write_open_error" \/ cache_key \in DOMAIN c THEN c
        ELSE IF io = "write_dump_error" THEN WriteFile(c, cache_key, Corrupt)
        ELSE WriteFile(c, cache_key, translation)

save_to_cache(c, text, target_lang, api, translation, io) ==
    LET cache_key == get_cache_key(text, target_lang, api)
    IN  IF io = "write_open_error" THEN c
        ELSE IF io = "write_dump_error" THEN WriteFile(c, cache_key, Corrupt)
        ELSE WriteFile(c, cache_key, translation)

\* Python truthiness of an Optional[str].
Truthy(x) == x # None /\ x # <<>>

EmptyCache == [k \in {} |-> <<>>]

-----------------------------------------------------------------------------
(* Provider adapter: translate_string *)

MAX_RETRIES == 3

\* The stub provider: deterministic, and not the identity.
Translate(text, target_lang) == text \o <<"[">> \o target_lang \o <<"]">>

NoError == [kind |-> "none", retries |-> 0, last |-> "none"]
ProviderError == [kind |-> "ProviderError", retries |-> 0, last |-> "ProviderError"]
ConfigError == [kind |-> "ValueError", retries |-> 0, last |-> "none"]

\* Exception(f"Failed after {max_retries} retries: {str(e)}")
RetriesExhausted(last) == [kind |-> "Failed after retries", retries |-> MAX_RETRIES, last |-> last]

\* for attempt in range(max_retries): try ... except ...: the loop from
\* `attempt` on. outcomes[attempt + 1] is what the provider does at that
\* attempt: "ok", "empty" or "error". With emptyRaises (google) an empty
\* response raises inside the try and is retried like an error; without
\* it (deepseek) the empty content is taken and the loop left.
RECURSIVE RetryLoop(_, _, _)
RetryLoop(attempt, outcomes, emptyRaises) ==
    LET o == outcomes[attempt + 1]
    IN  IF o = "ok" THEN
            [status |-> "ok", attempts |-> attempt + 1, sleeps |-> <<>>, error |-> NoError]
        ELSE IF o = "empty" /\ ~emptyRaises THEN
            [status |-> "empty", attempts |-> attempt + 1, sleeps |-> <<>>, error |-> NoError]
        ELSE IF attempt = MAX_RETRIES - 1 THEN
            [status |-> "raised", attempts |-> attempt + 1, sleeps |-> <<>>,
             error |-> RetriesExhausted(IF o = "empty" THEN "No translation returned"
                                                          ELSE "ProviderError")]
        ELSE LET rest == RetryLoop(attempt + 1, outcomes, emptyRaises)
             IN  [rest EXCEPT !.sleeps = <<2 ^ attempt>> \o rest.sleeps]

\* The provider part of translate_string, lines 122-218.
CallProvider(api, outcomes, env) ==
    IF api = DEEPL THEN
        IF outcomes[1] = "error"
        THEN [status |-> "raised", attempts |-> 1, sleeps |-> <<>>, error |-> ProviderError]
        ELSE [status |-> outcomes[1], attempts |-> 1, sleeps |-> <<>>, error |-> NoError]
    ELSE IF api = DEEPSEEK THEN RetryLoop(0, outcomes, FALSE)
    ELSE IF api = AZURE THEN
        [status |-> "empty", attempts |-> 0, sleeps |-> <<>>, error |-> NoError]
    ELSE IF api = GOOGLE THEN
        IF ~env.GOOGLE_CLOUD_PROJECT
        THEN [status |-> "raised", attempts |-> 0, sleeps |-> <<>>, error |-> ConfigError]
        ELSE RetryLoop(0, outcomes, TRUE)
    ELSE [status |-> "raised", attempts |-> 0, sleeps |-> <<>>, error |-> ConfigError]

\* The provider's text returned as it is.
ReturnValueRaw(translated_text, text) == translated_text

\* "return translated_text if translated_text else text", line 224.
ReturnValue(translated_text, text) ==
    IF Truthy(translated_text) THEN translated_text ELSE text

\* translate_string: its result, the cache directory it leaves, the texts it
\* handed to the provider (one per attempt), and whether the cache answered.
translate_string(text, target_lang, api, use_cache, c, env, outcomes) ==
    LET cached == IF use_cache
                  THEN get_cached_translation(c, text, target_lang, api, env.io)
                  ELSE None
    IN  IF use_cache /\ Truthy(cached) THEN
            [raised |-> FALSE, value |-> cached, error |-> NoError, attempts |-> 0,
             sleeps |-> <<>>, cache |-> c, handed |-> <<>>, hit |-> TRUE]
        ELSE
            LET r == CallProvider(api, outcomes, env)
                translated_text == IF r.status = "ok" THEN Translate(text, target_lang)
                                   ELSE IF api = AZURE THEN None ELSE <<>>
                handed == Listed([k \in 1..r.attempts |-> text], r.attempts)
            IN  IF r.status = "raised" THEN
                    [raised |-> TRUE, value |-> None, error |-> r.error,
                     attempts |-> r.attempts, sleeps |-> r.sleeps, cache |-> c,
                     handed |-> handed, hit |-> FALSE]
                ELSE
                    [raised |-> FALSE,
                     value |-> ReturnValue(translated_text, text),
                     error |-> NoError, attempts |-> r.attempts, sleeps |-> r.sleeps,
                     cache |-> IF Truthy(translated_text) /\ use_cache
                               THEN save_to_cache(c, text, target_lang, api, translated_text, env.io)
                               ELSE c,
                     handed |-> handed, hit |-> FALSE]

-----------------------------------------------------------------------------
(* Provider adapter: translate_batch *)

GOOGLE_BATCH_SIZE == 100

\* What the stub provider does at each attempt of a single-string call.
ProviderOutcomes(text) ==
    [k \in 1..MAX_RETRIES |-> IF text \in provider.bad THEN "error" ELSE "ok"]

\* str(e) for an exception that left translate_string: the provider's own
\* message when its exception passes through as it is (deepl), the text
\* translate_string put into the exception otherwise.
ErrorText(error) ==
    IF error.kind = "ProviderError"
    THEN IF provider.silent THEN <<>> ELSE <<"e", "r", "r">>
    ELSE <<"F", "a", "i", "l", "e", "d">>

\* Whether a bulk call with these texts raises.
BulkFails(texts) ==
    provider.bulkDown \/ \E k \in 1..Len(texts) : texts[k] \in provider.bad

\* The results stored by their position in the bulk call, not by the index
\* of the input they translate.
RECURSIVE StoreEachByPosition(_, _, _, _, _, _, _, _, _)
StoreEachByPosition(strings, batch_indices, lo, hi, target_lang, api, use_cache, env, acc) ==
    IF lo > hi \/ acc.raised THEN acc
    ELSE IF lo = hi THEN
        LET idx == batch_indices[lo]
            translated == Translate(strings[idx], target_lang)
        IN  [acc EXCEPT !.results[lo] = translated,
                        !.cache = IF use_cache
                                  THEN save_to_cache(@, strings[idx], target_lang, api,
                                                     translated, env.io)
                                  ELSE @]
    ELSE LET mid == (lo + hi) \div 2
         IN  StoreEachByPosition(strings, batch_indices, mid + 1, hi, target_lang, api, use_cache, env,
                 StoreEachByPosition(strings, batch_indices, lo, mid, target_lang, api, use_cache, env, acc))

\* "for idx, translation in zip(batch_indices, translations)": the results
\* stored and cached for positions lo..hi of batch_indices, in order. (The
\* range is halved, and acc read on entry, so that long lists do not nest
\* deeply; the loop is only entered when nothing was raised.)
RECURSIVE StoreEach(_, _, _, _, _, _, _, _, _)
StoreEach(strings, batch_indices, lo, hi, target_lang, api, use_cache, env, acc) ==
    IF lo > hi \/ acc.raised THEN acc
    ELSE IF lo = hi THEN
        LET idx == batch_indices[lo]
            translated == Translate(strings[idx], target_lang)
        IN  [acc EXCEPT !.results[idx] = translated,
                        !.cache = IF use_cache
                                  THEN save_to_cache(@, strings[idx], target_lang, api,
                                                     translated, env.io)
                                  ELSE @]
    ELSE LET mid == (lo + hi) \div 2
         IN  StoreEach(strings, batch_indices, mid + 1, hi, target_lang, api, use_cache, env,
                 StoreEach(strings, batch_indices, lo, mid, target_lang, api, use_cache, env, acc))

\* "for idx in batch_indices: results[idx] = translate_string(...)" for
\* positions lo..hi, in order: an exception of translate_string leaves the
\* loop and the function.
RECURSIVE FallbackEach(_, _, _, _, _, _, _, _, _)
FallbackEach(strings, batch_indices, lo, hi, target_lang, api, use_cache, env, acc) ==
    IF lo > hi \/ acc.raised THEN acc
    ELSE IF lo = hi THEN
        LET idx == batch_indices[lo]
            r == translate_string(strings[idx], target_lang, api, use_cache, acc.cache,
                                  env, ProviderOutcomes(strings[idx]))
            singles == Listed([j \in 1..Len(r.handed) |->
                                 [kind |-> "single", texts |-> <<r.handed[j]>>]], Len(r.handed))
        IN  [acc EXCEPT !.results[idx] = IF r.raised THEN @ ELSE r.value,
                        !.cache = r.cache,
                        !.calls = @ \o singles,
                        !.raised = r.raised,
                        !.error = r.error]
    ELSE LET mid == (lo + hi) \div 2
         IN  FallbackEach(strings, batch_indices, mid + 1, hi, target_lang, api, use_cache, env,
                 FallbackEach(strings, batch_indices, lo, mid, target_lang, api, use_cache, env, acc))

\* One bulk call for batch_indices, and the per-item fallback when it raises.
\* translate_batch does not look at project_id (line 276): without
\* GOOGLE_CLOUD_PROJECT the google request goes out for the parent
\* "projects/None/locations/global" and is refused.
BulkOrFallback(strings, batch_indices, target_lang, api, use_cache, env, acc) ==
    LET batch == Listed([k \in 1..Len(batch_indices) |-> strings[batch_indices[k]]],
                        Len(batch_indices))
        called == [acc EXCEPT !.calls = @ \o <<[kind |-> "bulk", texts |-> batch]>>]
    IN  IF BulkFails(batch) \/ (api = GOOGLE /\ ~env.GOOGLE_CLOUD_PROJECT)
        THEN FallbackEach(strings, batch_indices, 1, Len(batch_indices), target_lang, api,
                          use_cache, env, called)
        ELSE StoreEach(strings, batch_indices, 1, Len(batch_indices), target_lang, api,
                       use_cache, env, called)

\* "for batch_start in range(0, len(to_translate), batch_size)", 0-based
\* batch_start as in the code.
RECURSIVE GoogleBatches(_, _, _, _, _, _, _, _)
GoogleBatches(strings, to_translate_indices, batch_start, target_lang, api, use_cache, env, acc) ==
    IF batch_start >= Len(to_translate_indices) \/ acc.raised THEN acc
    ELSE LET batch_end == IF batch_start + GOOGLE_BATCH_SIZE < Len(to_translate_indices)
                          THEN batch_start + GOOGLE_BATCH_SIZE
                          ELSE Len(to_translate_indices)
             batch_indices == SubSeq(to_translate_indices, batch_start + 1, batch_end)
         IN  GoogleBatches(strings, to_translate_indices, batch_start + GOOGLE_BATCH_SIZE,
                 target_lang, api, use_cache, env,
                 BulkOrFallback(strings, batch_indices, target_lang, api, use_cache, env, acc))

\* translate_batch: results, the cache directory it leaves, the provider
\* calls it made in order, and whether an exception left it.
translate_batch(strings, target_lang, api, use_cache, c, env) ==
    LET hit(i) == use_cache /\ Truthy(get_cached_translation(c, strings[i], target_lang, api, env.io))
        miss(i) == ~hit(i)
        to_translate_indices ==
            SelectSeq(Listed([i \in 1..Len(strings) |-> i], Len(strings)), miss)
        start == [raised |-> FALSE, error |-> NoError, cache |-> c, calls |-> <<>>,
                  results |-> Listed([i \in 1..Len(strings) |->
                                 IF hit(i)
                                 THEN get_cached_translation(c, strings[i], target_lang, api, env.io)
                                 ELSE None], Len(strings))]
    IN  IF api = DEEPL THEN
            IF to_translate_indices # <<>>
            THEN BulkOrFallback(strings, to_translate_indices, target_lang, api, use_cache, env, start)
            ELSE start
        ELSE IF api = GOOGLE THEN
            GoogleBatches(strings, to_translate_indices, 0, target_lang, api, use_cache, env, start)
        ELSE FallbackEach(strings, Listed([i \in 1..Len(strings) |-> i], Len(strings)), 1, Len(strings),
                          target_lang, api, use_cache, env, start)

-----------------------------------------------------------------------------
(* Texts of catalog entries *)

DigitChars == <<"0", "1", "2", "3", "4", "5", "6", "7", "8", "9">>

\* The decimal digits of n.
RECURSIVE Dec(_)
Dec(n) == IF n < 10 THEN <<DigitChars[n + 1]>> ELSE Dec(n \div 10) \o <<DigitChars[(n % 10) + 1]>>

\* A plain source text, different for each i.
ItemText(i) == <<"m">> \o Dec(i)

\* A source text with a tag and a variable token.
MarkupText == <<"<", "b", ">", "%", "s">>

ES == <<"e", "s">>

-----------------------------------------------------------------------------
(* Idle values of the variables a specification does not use *)

NoCacheOp == [op |-> "none"]
NoCall == [fn |-> "none"]
NoProvider == [bad |-> {}, bulkDown |-> FALSE, silent |-> FALSE]

CacheIdle ==
    /\ cache = EmptyCache
    /\ cacheOp = NoCacheOp
    /\ putLog = <<>>

CallIdle ==
    /\ provider = NoProvider
    /\ call = NoCall

\* The progress file: whether it exists, whether it holds complete JSON, and
\* the count in it.
NoMarker == [exists |-> FALSE, readable |-> FALSE, translated_count |-> 0]
NoStep == [kind |-> "none", entries |-> <<>>, processed |-> 0, checkpoint |-> FALSE,
           calls |-> <<>>, raised |-> FALSE, failures |-> {}, unlinked |-> FALSE,
           cacheBefore |-> EmptyCache]
NoArgs == [api |-> DEEPL, target_lang |-> ES, batch_size |-> 10, parallel |-> 1,
           no_cache |-> FALSE, resume |-> FALSE]
OkEnv == [io |-> "ok", GOOGLE_CLOUD_PROJECT |-> TRUE]
NoProjectEnv == [io |-> "ok", GOOGLE_CLOUD_PROJECT |-> FALSE]

RunIdle ==
    /\ args = NoArgs
    /\ environ = OkEnv
    /\ inputPo = <<>>
    /\ po = <<>>
    /\ untranslated = <<>>
    /\ start_index = 0
    /\ pc = "idle"
    /\ pos = 0
    /\ running = {}
    /\ finished = <<>>
    /\ outFile = <<>>
    /\ progress = NoMarker
    /\ failed = {}
    /\ lastStep = NoStep
    /\ runNo = 0

-----------------------------------------------------------------------------
(* The codec applied to bounded texts *)

MaxTokens == 4

\* The pieces texts are built from: tag delimiters, the three kinds of
\* variable token, plain letters, and the two sentinels themselves.
Tokens ==
    { <<"<">>, <<">">>, <<"%", "s">>, <<"%", "d">>, <<"{", "0", "}">>,
      <<"a">>, HTML_PLACEHOLDER, VAR_PLACEHOLDER }

RECURSIVE Flatten(_)
Flatten(ss) == IF ss = <<>> THEN <<>> ELSE Head(ss) \o Flatten(Tail(ss))

CodecTexts ==
    { Flatten(ts) : ts \in UNION { [1..n -> Tokens] : n \in 0..MaxTokens } }

NoIso == [cleaned_text |-> <<>>, html_tags |-> <<>>, variables |-> <<>>]

CodecIdle ==
    /\ cText = <<>>
    /\ cIso = NoIso
    /\ cOut = <<>>
    /\ cPc = "idle"

CodecInit ==
    /\ cText \in CodecTexts
    /\ cIso = NoIso
    /\ cOut = <<>>
    /\ cPc = "start"
    /\ CacheIdle
    /\ CallIdle
    /\ RunIdle

Isolate ==
    /\ cPc = "start"
    /\ cIso' = isolate_html_and_variables(cText)
    /\ cPc' = "isolated"
    /\ UNCHANGED <<cText, cOut, cacheVars, callVars, runVars>>

\* The provider stub is the identity: the masked text comes back unchanged.
Reinsert ==
    /\ cPc = "isolated"
    /\ cOut' = reinsert_html_and_variables(cIso.cleaned_text, cIso.html_tags, cIso.variables)
    /\ cPc' = "reinserted"
    /\ UNCHANGED <<cText, cIso, cacheVars, callVars, runVars>>

CodecNext ==
    \/ Isolate
    \/ Reinsert

SpecCodec == CodecInit /\ [][CodecNext]_vars

-----------------------------------------------------------------------------
(* The cache operations on bounded requests *)

MaxCachePuts == 2

\* Texts and language codes with and without the separator of the key.
CacheTexts == { <<"a">>, <<"a", "|", "b">> }
CacheLangs == { <<"c">>, <<"b", "|", "c">> }
CacheApis == { DEEPL, GOOGLE }
CacheValues == { <<"x">>, <<>> }

CacheInit ==
    /\ CodecIdle
    /\ CacheIdle
    /\ CallIdle
    /\ RunIdle

\* Puts on a cache directory that starts empty, then one get.
CachePut ==
    /\ cacheOp.op # "get"
    /\ Len(putLog) < MaxCachePuts
    /\ \E text \in CacheTexts, lang \in CacheLangs, api \in CacheApis, v \in CacheValues,
          io \in {"ok", "write_open_error", "write_dump_error"} :
        LET key == get_cache_key(text, lang, api)
        IN  /\ cache' = save_to_cache(cache, text, lang, api, v, io)
            /\ cacheOp' = [op |-> "put", text |-> text, lang |-> lang, api |-> api,
                           value |-> v, io |-> io,
                           overwrote |-> key \in DOMAIN cache /\ cache[key] # v]
            /\ putLog' = Append(putLog, [triple |-> <<text, lang, api>>, value |-> v, io |-> io])
            /\ UNCHANGED <<codecVars, callVars, runVars>>

CacheGet ==
    /\ cacheOp.op # "get"
    /\ \E text \in CacheTexts, lang \in CacheLangs, api \in CacheApis,
          io \in {"ok", "read_error"} :
        /\ cacheOp' = [op |-> "get", text |-> text, lang |-> lang, api |-> api, io |-> io,
                       result |-> get_cached_translation(cache, text, lang, api, io)]
        /\ UNCHANGED <<cache, putLog, codecVars, callVars, runVars>>

CacheNext ==
    \/ CachePut
    \/ CacheGet

SpecCache == CacheInit /\ [][CacheNext]_vars

-----------------------------------------------------------------------------
(* translate_string on bounded requests, every pattern of provider outcomes *)

StringTexts == { ItemText(1), MarkupText }

IoModes == {"ok", "read_error", "write_open_error", "write_dump_error"}

\* A cache directory that holds the stub's translation of these texts.
WarmCache(texts, lang, apis) ==
    [k \in { get_cache_key(t, lang, a) : t \in texts, a \in apis } |->
        LET t == CHOOSE t \in texts : \E a \in apis : k = get_cache_key(t, lang, a)
        IN  Translate(t, lang)]

StringInit ==
    /\ CodecIdle
    /\ cache \in { EmptyCache, WarmCache({ItemText(1)}, ES, APIS) }
    /\ cacheOp = NoCacheOp
    /\ putLog = <<>>
    /\ CallIdle
    /\ RunIdle

\* One pass of the body of the sequential loop, lines 463-475, on an entry
\* with the source text `text`: "entry.msgstr = translate_string(...)" inside
\* try/except.
CallTranslateString ==
    /\ call.fn = "none"
    /\ \E text \in StringTexts, api \in APIS, use_cache \in BOOLEAN, io \in IoModes,
          project \in BOOLEAN,
          outcomes \in [1..MAX_RETRIES -> {"ok", "error", "empty"}] :
        LET env == [io |-> io, GOOGLE_CLOUD_PROJECT |-> project]
            res == translate_string(text, ES, api, use_cache, cache, env, outcomes)
        IN  /\ call' = [fn |-> "translate_string", text |-> text, api |-> api,
                        use_cache |-> use_cache, env |-> env, outcomes |-> outcomes,
                        res |-> res, cacheBefore |-> cache]
            /\ cache' = res.cache
            /\ po' = <<[msgid |-> text,
                        msgstr |-> IF res.raised THEN <<>> ELSE res.value]>>
            /\ UNCHANGED <<codecVars, cacheOp, putLog, provider, args, environ, inputPo,
                           untranslated, start_index, pc, pos, running, finished, outFile,
                           progress, failed, lastStep, runNo>>

StringNext == CallTranslateString

SpecString == StringInit /\ [][StringNext]_vars

-----------------------------------------------------------------------------
(* translate_batch on bounded lists *)

MaxBatchLen == 102

BatchLens == {0, 1, 2, 3, GOOGLE_BATCH_SIZE, MaxBatchLen}

\* K different texts, or K texts that repeat two.
BatchStrings(K, repeat) ==
    Listed([i \in 1..K |-> IF repeat THEN ItemText((i % 2) + 1) ELSE ItemText(i)], K)

\* Which of the texts 1..MaxBatchLen the cache already holds.
HitPatterns ==
    { {}, 1..MaxBatchLen, {i \in 1..MaxBatchLen : i % 2 = 1},
      {i \in 1..MaxBatchLen : i % 3 = 0}, {i \in 1..MaxBatchLen : i > 2}, {2} }

BatchInit ==
    /\ CodecIdle
    /\ \E pat \in HitPatterns, apis \in {{DEEPL, DEEPSEEK}, {GOOGLE}} :
          cache = WarmCache({ItemText(i) : i \in pat}, ES, apis)
    /\ cacheOp = NoCacheOp
    /\ putLog = <<>>
    /\ provider \in [bad : {{}, {ItemText(2)}}, bulkDown : BOOLEAN, silent : {FALSE}]
    /\ call = NoCall
    /\ RunIdle

CallTranslateBatch ==
    /\ call.fn = "none"
    /\ \E K \in BatchLens, repeat \in BOOLEAN, api \in APIS, use_cache \in BOOLEAN,
          io \in {"ok", "read_error"} :
        LET env == [io |-> io, GOOGLE_CLOUD_PROJECT |-> TRUE]
            strings == BatchStrings(K, repeat)
            res == translate_batch(strings, ES, api, use_cache, cache, env)
        IN  /\ call' = [fn |-> "translate_batch", strings |-> strings, api |-> api,
                        use_cache |-> use_cache, env |-> env, res |-> res]
            /\ cache' = res.cache
            /\ UNCHANGED <<codecVars, cacheOp, putLog, provider, runVars>>

BatchNext == CallTranslateBatch

SpecBatch == BatchInit /\ [][BatchNext]_vars

-----------------------------------------------------------------------------
(* The run of main() *)

CHECKPOINT_EVERY == 50

MaxEntries == 54
MaxPending == 1
MaxLag == 2
MaxRuns == 2

Min(a, b) == IF a < b THEN a ELSE b

\* po.untranslated_entries(): the entries whose msgstr is empty, in order.
untranslated_entries(p) ==
    LET empty(i) == p[i].msgstr = <<>>
    IN  SelectSeq(Listed([i \in 1..Len(p) |-> i], Len(p)), empty)

\* The storage conditions of one access to the progress file.
MarkerIo == {"ok", "read_error", "write_open_error", "write_dump_error"}

\* "with open(progress_file, 'w') as f: json.dump(...)" inside try/except: a
\* failing open leaves the file as it was, a failing dump leaves the file
\* open() truncated, and neither is raised.
save_progress(marker, translated_count, io) ==
    IF io = "write_open_error" THEN marker
    ELSE IF io = "write_dump_error"
         THEN [exists |-> TRUE, readable |-> FALSE, translated_count |-> translated_count]
         ELSE [exists |-> TRUE, readable |-> TRUE, translated_count |-> translated_count]

\* The checks of the file left out.
load_progress_unchecked(marker, io) == marker.translated_count

\* "if progress_file.exists(): try: ... return data.get('translated_count', 0)
\* except: warning" and "return 0".
load_progress(marker, io) ==
    IF marker.exists /\ marker.readable /\ io # "read_error"
        THEN marker.translated_count
        ELSE 0

\* The clean-up left out.
KeepProgress(marker) == marker

\* "if progress_file.exists(): progress_file.unlink()"
CleanUpProgress(marker) == NoMarker

\* The branches tested in the other order: the worker pool first.
ModeParallelFirst(a) ==
    IF a.parallel > 1 THEN "parallel"
    ELSE IF a.batch_size > 1 /\ a.api \in {DEEPL, GOOGLE} THEN "batch"
    ELSE "sequential"

\* The branch of main() the command line selects.
Mode(a) ==
    IF a.batch_size > 1 /\ a.api \in {DEEPL, GOOGLE} THEN "batch"
    ELSE IF a.parallel > 1 THEN "parallel"
    ELSE "sequential"

Singles(handed) ==
    Listed([j \in 1..Len(handed) |-> [kind |-> "single", texts |-> <<handed[j]>>]], Len(handed))

\* The fallback of the batch branch without its inner try/except: the first
\* failure ends it.
RECURSIVE FallbackStopAtFirst(_, _, _, _)
FallbackStopAtFirst(batch, k, a, acc) ==
    IF k > Len(batch) \/ acc.failed # {} THEN acc
    ELSE LET e == batch[k]
             r == translate_string(acc.po[e].msgid, a.target_lang, a.api, ~a.no_cache,
                                   acc.cache, environ, ProviderOutcomes(acc.po[e].msgid))
         IN  FallbackStopAtFirst(batch, k + 1, a,
                 [po |-> IF r.raised THEN acc.po ELSE [acc.po EXCEPT ![e].msgstr = r.value],
                  cache |-> r.cache,
                  failed |-> IF r.raised THEN acc.failed \cup {e} ELSE acc.failed,
                  calls |-> acc.calls \o Singles(r.handed)])

\* Lines 427-433: "for entry in batch: try: entry.msgstr = translate_string(...)
\* except: continue", from position k of the batch on. (The catalog is never
\* empty here; reading it makes TLC evaluate acc before it descends.)
RECURSIVE FallbackIndividually(_, _, _, _)
FallbackIndividually(batch, k, a, acc) ==
    IF k > Len(batch) \/ Len(acc.po) = 0 THEN acc
    ELSE LET e == batch[k]
             r == translate_string(acc.po[e].msgid, a.target_lang, a.api, ~a.no_cache,
                                   acc.cache, environ, ProviderOutcomes(acc.po[e].msgid))
         IN  FallbackIndividually(batch, k + 1, a,
                 [po |-> IF r.raised THEN acc.po ELSE [acc.po EXCEPT ![e].msgstr = r.value],
                  cache |-> r.cache,
                  failed |-> IF r.raised THEN acc.failed \cup {e} ELSE acc.failed,
                  calls |-> acc.calls \o Singles(r.handed)])

\* "for entry, translation in zip(batch, translations): entry.msgstr = translation"
AssignBatch(p, batch, translations) ==
    Listed([i \in 1..Len(p) |->
              IF \E k \in 1..Len(batch) : batch[k] = i
              THEN [p[i] EXCEPT !.msgstr =
                       translations[CHOOSE k \in 1..Len(batch) : batch[k] = i]]
              ELSE p[i]], Len(p))

\* Catalogs: entry 1 carries markup, entry 2 is already translated, the
\* others are plain and untranslated.
Catalog(N) ==
    Listed([i \in 1..N |->
              IF i = 1 THEN [msgid |-> MarkupText, msgstr |-> <<>>]
              ELSE IF i = 2 THEN [msgid |-> ItemText(2), msgstr |-> Translate(ItemText(2), ES)]
              ELSE [msgid |-> ItemText(i), msgstr |-> <<>>]], N)

CatalogSizes == {4, MaxEntries}

\* (--api, --batch-size, --parallel)
CommandLines ==
    { a \in [api : APIS, target_lang : {ES}, batch_size : {1, 7, 10}, parallel : {1, 2},
             no_cache : BOOLEAN, resume : {FALSE}] :
        <<a.api, a.batch_size, a.parallel>> \in
            { <<DEEPL, 1, 1>>, <<DEEPSEEK, 10, 1>>, <<AZURE, 10, 1>>, <<GOOGLE, 1, 1>>,
              <<DEEPL, 10, 1>>, <<DEEPL, 10, 2>>, <<GOOGLE, 10, 1>>, <<GOOGLE, 7, 1>>,
              <<DEEPSEEK, 10, 2>>, <<DEEPL, 1, 2>> } }

\* The provider fails on no text, on the third untranslated entry's (with
\* an exception that has a message, or one that has none), on the
\* fiftieth's, or on every bulk call.
Providers ==
    { [bad |-> {}, bulkDown |-> FALSE, silent |-> FALSE],
      [bad |-> {}, bulkDown |-> TRUE, silent |-> FALSE],
      [bad |-> {ItemText(4)}, bulkDown |-> FALSE, silent |-> FALSE],
      [bad |-> {ItemText(4)}, bulkDown |-> FALSE, silent |-> TRUE],
      [bad |-> {ItemText(CHECKPOINT_EVERY + 1)}, bulkDown |-> FALSE, silent |-> FALSE] }

\* The environment of a run: GOOGLE_CLOUD_PROJECT set or not when google is
\* the provider, and the condition of the cache storage when caching is on.
RunEnvs(a) ==
    {OkEnv}
    \cup (IF a.api = GOOGLE THEN {NoProjectEnv} ELSE {})
    \cup (IF a.no_cache THEN {} ELSE { [OkEnv EXCEPT !.io = m] : m \in IoModes })

RunInitOf(sizes) ==
    /\ CodecIdle
    /\ cacheOp = NoCacheOp
    /\ putLog = <<>>
    /\ call = NoCall
    /\ provider \in Providers
    /\ args \in CommandLines
    /\ cache \in IF args.no_cache THEN {EmptyCache}
                 ELSE {EmptyCache, WarmCache({ItemText(3), ItemText(5)}, ES, {args.api})}
    /\ environ \in RunEnvs(args)
    /\ \E N \in sizes : inputPo = Catalog(N)
    /\ po = <<>>
    /\ untranslated = <<>>
    /\ start_index = 0
    /\ pc = "init"
    /\ pos = 0
    /\ running = {}
    /\ finished = <<>>
    /\ outFile = <<>>
    /\ progress = NoMarker
    /\ failed = {}
    /\ lastStep = NoStep
    /\ runNo = 1

RunInit == RunInitOf(CatalogSizes)

notRun == <<codecVars, cacheOp, putLog, call, provider>>

\* Lines 380-400 and the choice of branch: load the catalog, take the
\* untranslated entries, skip start_index of them when resuming; in the
\* parallel branch submit every entry, of which the workers take the first.
Start ==
    /\ pc = "init"
    /\ LET all == untranslated_entries(inputPo)
           si == IF args.resume THEN load_progress(progress, "ok") ELSE 0
           rest == IF args.resume /\ si > 0 THEN Slice(all, si + 1, Len(all)) ELSE all
       IN  /\ po' = inputPo
           /\ start_index' = si
           /\ untranslated' = rest
           /\ pc' = Mode(args)
           /\ running' = IF Mode(args) = "parallel"
                         THEN 1..Min(args.parallel, Len(rest)) ELSE {}
    /\ pos' = 0
    /\ finished' = <<>>
    /\ failed' = {}
    /\ lastStep' = [NoStep EXCEPT !.kind = "start"]
    /\ UNCHANGED <<args, environ, inputPo, outFile, progress, runNo, cache, notRun>>

\* One iteration of the sequential loop, lines 462-475.
SequentialStep ==
    /\ pc = "sequential"
    /\ pos < Len(untranslated)
    /\ LET idx == pos
           e == untranslated[idx + 1]
           r == translate_string(po[e].msgid, args.target_lang, args.api, ~args.no_cache,
                                 cache, environ, ProviderOutcomes(po[e].msgid))
           po1 == IF r.raised THEN po ELSE [po EXCEPT ![e].msgstr = r.value]
           ck == ~r.raised /\ (idx + 1) % CHECKPOINT_EVERY = 0
       IN  /\ po' = po1
           /\ cache' = r.cache
           /\ failed' = IF r.raised THEN failed \cup {e} ELSE failed
           /\ outFile' = IF ck THEN po1 ELSE outFile
           /\ progress' = IF ck THEN save_progress(progress, start_index + idx + 1, "ok") ELSE progress
           /\ lastStep' = [kind |-> "sequential", entries |-> <<e>>, processed |-> idx + 1,
                           checkpoint |-> ck, calls |-> Singles(r.handed),
                           raised |-> r.raised,
                           failures |-> IF r.raised THEN {e} ELSE {}, unlinked |-> FALSE,
                           cacheBefore |-> cache]
    /\ pos' = pos + 1
    /\ UNCHANGED <<args, environ, inputPo, untranslated, start_index, pc, running, finished,
                   runNo, notRun>>

\* One iteration of the batch loop, lines 406-433: tb is what translate_batch
\* did, out what the iteration leaves behind (the zip on success, the
\* entry-by-entry fallback when translate_batch raised).
BatchStep ==
    /\ pc = "batch"
    /\ pos < Len(untranslated)
    /\ LET batch_start == pos
           batch_end == Min(batch_start + args.batch_size, Len(untranslated))
           batch == SubSeq(untranslated, batch_start + 1, batch_end)
           msgids == Listed([k \in 1..Len(batch) |-> po[batch[k]].msgid], Len(batch))
       IN  \E tb \in {translate_batch(msgids, args.target_lang, args.api, ~args.no_cache,
                                      cache, environ)} :
           \E out \in {IF tb.raised
                       THEN FallbackIndividually(batch, 1, args,
                                [po |-> po, cache |-> tb.cache, failed |-> {},
                                 calls |-> tb.calls])
                       ELSE [po |-> AssignBatch(po, batch, tb.results), cache |-> tb.cache,
                             failed |-> {}, calls |-> tb.calls]} :
           \E ck \in {~tb.raised
                      /\ (batch_start + args.batch_size) % CHECKPOINT_EVERY = 0} :
               /\ po' = out.po
               /\ cache' = out.cache
               /\ failed' = failed \cup out.failed
               /\ outFile' = IF ck THEN out.po ELSE outFile
               /\ progress' = IF ck THEN save_progress(progress, start_index + batch_end, "ok")
                              ELSE progress
               /\ lastStep' = [kind |-> "batch", entries |-> batch, processed |-> batch_end,
                               checkpoint |-> ck, calls |-> out.calls, raised |-> tb.raised,
                               failures |-> out.failed, unlinked |-> FALSE,
                           cacheBefore |-> cache]
    /\ pos' = pos + args.batch_size
    /\ UNCHANGED <<args, environ, inputPo, untranslated, start_index, pc, running, finished,
                   runNo, notRun>>

Oldest(tasks) == CHOOSE t \in tasks : \A u \in tasks : t <= u

\* The wrapper reporting its result under the first entry of the set.
translate_entry_wrapper_first(entry, target_lang, api, use_cache, c, env) ==
    LET r == translate_string(po[entry].msgid, target_lang, api, use_cache, c, env,
                              ProviderOutcomes(po[entry].msgid))
    IN  [entry |-> untranslated[1], translation |-> r.value,
         error |-> IF r.raised THEN ErrorText(r.error) ELSE None,
         raised |-> r.raised, cache |-> r.cache, handed |-> r.handed]

\* translate_entry_wrapper, lines 352-359: "return entry, translation, None"
\* or "return entry, None, str(e)"; the call touches the cache and nothing
\* else.
translate_entry_wrapper(entry, target_lang, api, use_cache, c, env) ==
    LET r == translate_string(po[entry].msgid, target_lang, api, use_cache, c, env,
                              ProviderOutcomes(po[entry].msgid))
    IN  [entry |-> entry, translation |-> r.value,
         error |-> IF r.raised THEN ErrorText(r.error) ELSE None,
         raised |-> r.raised, cache |-> r.cache, handed |-> r.handed]

\* translate_entry_wrapper on a worker thread, lines 352-359: the task ends,
\* its result waits for the main thread, and the worker takes the next
\* submitted task. The main thread is at most MaxPending results behind, and
\* the oldest task in flight is at most MaxLag tasks behind the newest.
WorkerFinish ==
    /\ pc = "parallel"
    /\ Len(finished) < MaxPending
    /\ \E t \in running :
        LET e == untranslated[t]
            oldest == Oldest(running)
            r == translate_entry_wrapper(e, args.target_lang, args.api, ~args.no_cache,
                                         cache, environ)
            next == pos + Len(finished) + Cardinality(running) + 1
        IN  /\ t = oldest \/ next - oldest <= MaxLag
            /\ cache' = r.cache
            /\ finished' = Append(finished,
                   [task |-> t, entry |-> r.entry, translation |-> r.translation,
                    error |-> r.error, raised |-> r.raised])
            /\ running' = (running \ {t}) \cup
                   (IF next <= Len(untranslated) THEN {next} ELSE {})
            /\ lastStep' = [kind |-> "worker", entries |-> <<e>>, processed |-> pos,
                            checkpoint |-> FALSE, calls |-> Singles(r.handed),
                            raised |-> r.raised, failures |-> {}, unlinked |-> FALSE,
                           cacheBefore |-> cache]
    /\ UNCHANGED <<args, environ, inputPo, po, untranslated, start_index, pc, pos, outFile,
                   progress, failed, runNo, notRun>>

\* One iteration of "for future in as_completed(futures)", lines 446-458.
Collect ==
    /\ pc = "parallel"
    /\ finished # <<>>
    /\ LET f == Head(finished)
           e == f.entry
            completed == pos + 1
            po1 == IF Truthy(f.error) THEN po ELSE [po EXCEPT ![e].msgstr = f.translation]
            ck == completed % CHECKPOINT_EVERY = 0
        IN  /\ po' = po1
            /\ failed' = IF f.raised THEN failed \cup {e} ELSE failed
            /\ finished' = Tail(finished)
            /\ pos' = completed
            /\ outFile' = IF ck THEN po1 ELSE outFile
            /\ progress' = IF ck THEN save_progress(progress, start_index + completed, "ok") ELSE progress
            /\ lastStep' = [kind |-> "collect", entries |-> <<e>>, processed |-> completed,
                            checkpoint |-> ck, calls |-> <<>>, raised |-> f.raised,
                            failures |-> IF f.raised THEN {e} ELSE {},
                            unlinked |-> FALSE,
                           cacheBefore |-> cache]
    /\ UNCHANGED <<args, environ, inputPo, untranslated, start_index, pc, running, cache,
                   runNo, notRun>>

\* The loop leaving one entry out.
exhausted_early(position, entries) == position >= Len(entries) - 1

\* "for ... in untranslated" (lines 406, 446, 462) has no entry left: the
\* loop has passed every entry of the list.
exhausted(position, entries) == position >= Len(entries)

\* Lines 477-484: the final save and the removal of the progress file.
Finalize ==
    /\ pc \in {"batch", "parallel", "sequential"}
    /\ exhausted(pos, untranslated)
    /\ outFile' = po
    /\ progress' = CleanUpProgress(progress)
    /\ pc' = "done"
    /\ lastStep' = [NoStep EXCEPT !.kind = "final", !.processed = Min(pos, Len(untranslated)),
                                  !.unlinked = progress.exists]
    /\ UNCHANGED <<args, environ, inputPo, po, untranslated, start_index, pos, running,
                   finished, failed, runNo, cache, notRun>>

\* The process is killed right after a checkpoint and the same command line
\* is started again with --resume: what was in memory is gone, the files stay.
CrashAndResume ==
    /\ pc \in {"batch", "parallel", "sequential"}
    /\ lastStep.checkpoint
    /\ runNo < MaxRuns
    /\ pc' = "init"
    /\ args' = [args EXCEPT !.resume = TRUE]
    /\ runNo' = runNo + 1
    /\ po' = <<>>
    /\ untranslated' = <<>>
    /\ start_index' = 0
    /\ pos' = 0
    /\ running' = {}
    /\ finished' = <<>>
    /\ failed' = {}
    /\ lastStep' = [NoStep EXCEPT !.kind = "crash"]
    /\ UNCHANGED <<environ, inputPo, outFile, progress, cache, notRun>>

Next ==
    \/ Start
    \/ SequentialStep
    \/ BatchStep
    \/ WorkerFinish
    \/ Collect
    \/ Finalize
    \/ CrashAndResume

Spec == RunInit /\ [][Next]_vars

\* The run with its scheduling, on catalogs of up to MaxLiveEntries entries:
\* the main thread takes its next step, every provider call returns and every
\* worker's task ends; the process is not killed.
MaxLiveEntries == 9

LiveInit == RunInitOf({4, MaxLiveEntries})

LiveNext ==
    \/ Start
    \/ SequentialStep
    \/ BatchStep
    \/ WorkerFinish
    \/ Collect
    \/ Finalize

\* What BatchStep does to the position of the batch loop, lines 406-407: from
\* batch_start to batch_end. BatchStep is the only step that moves pos in
\* batch mode and it is enabled exactly when a chunk is left, so fairness of
\* this action over pos is fairness of BatchStep.
BatchAdvance ==
    /\ pc = "batch"
    /\ pos < Len(untranslated)
    /\ pos' = Min(pos + args.batch_size, Len(untranslated))

SpecLive ==
    /\ LiveInit
    /\ [][LiveNext]_vars
    /\ WF_vars(Start)
    /\ WF_vars(SequentialStep)
    /\ WF_pos(BatchAdvance)
    /\ WF_vars(WorkerFinish)
    /\ WF_vars(Collect)
    /\ WF_vars(Finalize)

-----------------------------------------------------------------------------
(* The progress tracker on its own: save_progress, load_progress and the
   clean-up of main(), under every storage condition *)

MaxCount == 3

\* The latest change of the progress file by a tracker call.
NoChange == [op |-> "none", translated_count |-> 0, io |-> "ok"]

NoTrackerCall == [fn |-> "none", io |-> "ok", result |-> 0, last |-> NoChange]

ProgressInit ==
    /\ CodecIdle
    /\ CacheIdle
    /\ provider = NoProvider
    /\ call = NoTrackerCall
    /\ args = NoArgs
    /\ environ = OkEnv
    /\ inputPo = <<>>
    /\ po = <<>>
    /\ untranslated = <<>>
    /\ start_index = 0
    /\ pc = "idle"
    /\ pos = 0
    /\ running = {}
    /\ finished = <<>>
    /\ outFile = <<>>
    /\ progress = NoMarker
    /\ failed = {}
    /\ lastStep = NoStep
    /\ runNo = 0

notTracker == <<codecVars, cacheVars, provider, args, environ, inputPo, po, untranslated,
                start_index, pc, pos, running, finished, outFile, failed, lastStep, runNo>>

SaveProgress ==
    \E translated_count \in 0..MaxCount,
       io \in {"ok", "write_open_error", "write_dump_error"} :
        /\ progress' = save_progress(progress, translated_count, io)
        /\ call' = [fn |-> "save_progress", io |-> io, result |-> 0,
                    last |-> [op |-> "save", translated_count |-> translated_count,
                              io |-> io]]
        /\ UNCHANGED notTracker

LoadProgress ==
    \E io \in {"ok", "read_error"} :
        /\ call' = [fn |-> "load_progress", io |-> io,
                    result |-> load_progress(progress, io), last |-> call.last]
        /\ UNCHANGED <<progress, notTracker>>

ClearProgress ==
    /\ progress' = CleanUpProgress(progress)
    /\ call' = [fn |-> "unlink", io |-> "ok", result |-> 0,
                last |-> [op |-> "clear", translated_count |-> 0, io |-> "ok"]]
    /\ UNCHANGED notTracker

ProgressNext == SaveProgress \/ LoadProgress \/ ClearProgress

SpecProgress == ProgressInit /\ [][ProgressNext]_vars

-----------------------------------------------------------------------------
(* The cache writes of translate_string and translate_batch, call by call, with
   a provider whose answer to a text may differ from one call to the next *)

MaxWorkers == 2
MaxChunk == 2

RecordTexts == { ItemText(1), ItemText(2) }

\* What the provider may answer to any text.
Answers == { <<"x">>, <<"y">>, <<>> }

\* Lines 246-254: the positions of strings that have no usable record.
to_translate_indices(c, strings, target_lang, api, io) ==
    LET miss(i) == ~Truthy(get_cached_translation(c, strings[i], target_lang, api, io))
    IN  SelectSeq(Listed([i \in 1..Len(strings) |-> i], Len(strings)), miss)

RecordInit ==
    /\ CodecIdle
    /\ CacheIdle
    /\ CallIdle
    /\ RunIdle

notRecord == <<codecVars, cacheOp, putLog, provider, args, environ, inputPo, po, untranslated,
               start_index, pc, pos, outFile, progress, failed, lastStep, runNo>>

\* translate_string up to the provider call, lines 116-120, on a worker
\* thread: a usable record ends the call, otherwise the request goes out.
WorkerLookup ==
    \E w \in 1..MaxWorkers, text \in RecordTexts, io \in {"ok", "read_error"} :
        /\ finished = <<>>
        /\ \A t \in running : t.worker # w
        /\ LET cached == get_cached_translation(cache, text, ES, DEEPL, io)
           IN  IF Truthy(cached)
               THEN /\ call' = [fn |-> "translate_string", worker |-> w, text |-> text,
                                value |-> cached, called |-> FALSE, saved |-> FALSE]
                    /\ UNCHANGED running
               ELSE /\ call' = [fn |-> "lookup", worker |-> w, text |-> text,
                                value |-> None, called |-> FALSE, saved |-> FALSE]
                    /\ running' = running \cup {[worker |-> w, text |-> text]}
        /\ UNCHANGED <<cache, finished, notRecord>>

\* translate_string from the provider's answer on, lines 124-132 and 218-224.
WorkerStore ==
    \E t \in running, translated_text \in Answers,
       io \in {"ok", "write_open_error", "write_dump_error"} :
        /\ cache' = IF Truthy(translated_text)
                     THEN save_to_cache(cache, t.text, ES, DEEPL, translated_text, io)
                     ELSE cache
        /\ running' = running \ {t}
        /\ call' = [fn |-> "translate_string", worker |-> t.worker, text |-> t.text,
                    value |-> IF Truthy(translated_text) THEN translated_text ELSE t.text,
                    called |-> TRUE, saved |-> Truthy(translated_text)]
        /\ UNCHANGED <<finished, notRecord>>

\* translate_batch for deepl on one chunk, lines 244-260: the split by the
\* cache and the bulk call, which answers; what is left is to store each
\* answer. No worker is in flight, the modes are never mixed.
ChunkCall ==
    /\ running = {}
    /\ finished = <<>>
    /\ \E n \in 1..MaxChunk :
        \E strings \in [1..n -> RecordTexts], io \in {"ok", "read_error"} :
            \E indices \in {to_translate_indices(cache, strings, ES, DEEPL, io)} :
                \E translations \in [1..Len(indices) -> Answers] :
                    /\ finished' = [k \in 1..Len(indices) |->
                                       [text |-> strings[indices[k]],
                                        translation |-> translations[k]]]
                    /\ call' = [fn |-> "translate_batch", worker |-> 0, text |-> strings,
                                value |-> translations, called |-> Len(indices) > 0,
                                saved |-> FALSE]
    /\ UNCHANGED <<cache, running, notRecord>>

\* One iteration of "for idx, translation in zip(to_translate_indices,
\* translations)", lines 261-265.
ChunkSave ==
    /\ finished # <<>>
    /\ \E io \in {"ok", "write_open_error", "write_dump_error"} :
        /\ cache' = save_to_cache(cache, Head(finished).text, ES, DEEPL,
                                  Head(finished).translation, io)
        /\ call' = [fn |-> "save", worker |-> 0, text |-> Head(finished).text,
                    value |-> Head(finished).translation, called |-> FALSE,
                    saved |-> TRUE]
    /\ finished' = Tail(finished)
    /\ UNCHANGED <<running, notRecord>>

RecordNext == WorkerLookup \/ WorkerStore \/ ChunkCall \/ ChunkSave

SpecRecord == RecordInit /\ [][RecordNext]_vars

-----------------------------------------------------------------------------
(* Claims *)

\* What an uninterrupted run of the same command line leaves in an entry of
\* the input catalog (the provider is deterministic: an entry's fate depends on
\* its msgid alone), and the catalog it saves.
UninterruptedEntry(entry) ==
    IF entry.msgstr # <<>> THEN entry
    ELSE LET r == translate_string(entry.msgid, args.target_lang, args.api, ~args.no_cache,
                                   cache, environ, ProviderOutcomes(entry.msgid))
         IN  IF ~r.raised THEN [entry EXCEPT !.msgstr = r.value]
             ELSE IF Mode(args) = "parallel" /\ ~Truthy(ErrorText(r.error))
             THEN [entry EXCEPT !.msgstr = None]
             ELSE entry

UninterruptedCatalog ==
    Listed([i \in 1..Len(inputPo) |-> UninterruptedEntry(inputPo[i])], Len(inputPo))

\* A run that was never interrupted saves the catalog UninterruptedCatalog
\* describes.
UninterruptedRunSaves ==
    (pc = "done" /\ runNo = 1) => outFile = UninterruptedCatalog

\* C1: a run restarted with --resume after an interruption right after the
\* checkpoint that saved count C processes exactly the total - C remaining
\* untranslated entries, and the catalog it finally saves is the catalog an
\* uninterrupted run would have saved.
C1_ResumeCorrectness ==
    (pc = "done" /\ runNo > 1)
    => /\ start_index > 0
       /\ Len(untranslated) = Len(untranslated_entries(inputPo)) - start_index
       /\ outFile = UninterruptedCatalog

\* C2: whenever reinsert_html_and_variables has been applied to the three
\* results of isolate_html_and_variables(text), with the masked text
\* unchanged, its result is the original text.
C2_RoundTrip == cPc = "reinserted" => cOut = cText

\* The texts a step handed to the provider, over all its calls.
HandedTexts ==
    UNION { { lastStep.calls[j].texts[m] : m \in 1..Len(lastStep.calls[j].texts) } :
              j \in 1..Len(lastStep.calls) }

\* C3: every text handed to the provider is the masked text that
\* isolate_html_and_variables produces for the msgid of an entry of the step
\* (so it holds no raw tag and no raw variable), and an entry translated on a
\* cache miss gets reinsert_html_and_variables of the provider's result and
\* of the entry's manifest.
C3_PlaceholderProtection ==
    LET step == { lastStep.entries[k] : k \in 1..Len(lastStep.entries) }
        iso(e) == isolate_html_and_variables(po[e].msgid)
    IN  lastStep.kind \in {"sequential", "batch"}
        => /\ \A t \in HandedTexts : \E e \in step : t = iso(e).cleaned_text
           /\ \A e \in step \ lastStep.failures :
                (po[e].msgid \in HandedTexts \/ iso(e).cleaned_text \in HandedTexts)
                => po[e].msgstr =
                     reinsert_html_and_variables(
                         Translate(iso(e).cleaned_text, args.target_lang),
                         iso(e).html_tags, iso(e).variables)

\* C4: a get for a (text, language, provider) triple that no put was made
\* for returns absent, whatever other triples were put (the cache directory
\* starts empty and the hash is injective on the key string).
C4_KeySeparation ==
    (/\ cacheOp.op = "get"
     /\ \A k \in 1..Len(putLog) :
            putLog[k].triple # <<cacheOp.text, cacheOp.lang, cacheOp.api>>)
    => cacheOp.result = None

\* C5: when storage does not fail, a get made after a put for the same
\* (text, language, provider) returns exactly the value of that last put.
C5_ReadAfterWrite ==
    (/\ cacheOp.op = "get"
     /\ cacheOp.io = "ok"
     /\ Len(putLog) > 0
     /\ putLog[Len(putLog)].triple = <<cacheOp.text, cacheOp.lang, cacheOp.api>>
     /\ putLog[Len(putLog)].io = "ok")
    => cacheOp.result = putLog[Len(putLog)].value

\* A get that follows two successful puts of different values for its triple.
C5_Witness ==
    /\ cacheOp.op = "get"
    /\ cacheOp.io = "ok"
    /\ Len(putLog) >= 2
    /\ \A k \in {1, Len(putLog)} :
          /\ putLog[k].triple = <<cacheOp.text, cacheOp.lang, cacheOp.api>>
          /\ putLog[k].io = "ok"
    /\ putLog[1].value # putLog[Len(putLog)].value
    /\ cacheOp.result = putLog[Len(putLog)].value

\* The entries of this run whose work the files on disk account for.
Checkpointed == IF progress.exists THEN progress.translated_count - start_index ELSE 0

\* C6: in every mode, a step of the main loop that brings the number of
\* processed entries to a multiple of 50 saves the catalog and writes the
\* Progress Marker with that count, whether or not the entry or chunk
\* failed; so the entries processed since the last checkpoint are never
\* more than 50.
C6_Checkpointing ==
    /\ (/\ lastStep.kind \in {"sequential", "batch", "collect"}
        /\ lastStep.processed % CHECKPOINT_EVERY = 0)
       => /\ lastStep.checkpoint
          /\ outFile = po
          /\ progress = save_progress(NoMarker, start_index + lastStep.processed, "ok")
    /\ lastStep.kind \in {"sequential", "batch", "collect"}
       => lastStep.processed - Checkpointed <= CHECKPOINT_EVERY

C8_FailureIsolation ==
    /\ (lastStep.kind = "batch" /\ Cardinality(lastStep.failures) = 1)
       => /\ \A k \in 1..Len(lastStep.entries) :
                lastStep.entries[k] \notin lastStep.failures
                => po[lastStep.entries[k]].msgstr =
                       Translate(po[lastStep.entries[k]].msgid, args.target_lang)
          /\ pc = "batch"
          /\ pos = lastStep.processed \/ pos >= Len(untranslated)
    /\ (pc = "done" /\ Mode(args) = "batch" /\ Cardinality(failed) = 1)
       => \A k \in 1..Len(untranslated) :
              untranslated[k] \notin failed
              => outFile[untranslated[k]].msgstr =
                     Translate(inputPo[untranslated[k]].msgid, args.target_lang)

\* A chunk of ten with one failing entry, entries before and after it
\* translated, and chunks still to come.
C8_Witness ==
    /\ lastStep.kind = "batch"
    /\ Len(lastStep.entries) = 10
    /\ lastStep.raised
    /\ \E k \in 2..9 :
          /\ lastStep.failures = {lastStep.entries[k]}
          /\ po[lastStep.entries[k]].msgstr = <<>>
          /\ po[lastStep.entries[k - 1]].msgstr # <<>>
          /\ po[lastStep.entries[k + 1]].msgstr # <<>>
    /\ pos < Len(untranslated)

\* C9: when translate_batch returns, for a provider that is called (deepl,
\* google, deepseek), its result has the length of the input and its element
\* at every index i is the stub's translation of the input at index i.
C9_BatchOrder ==
    (/\ call.fn = "translate_batch"
     /\ call.api # AZURE
     /\ ~call.res.raised)
    => /\ Len(call.res.results) = Len(call.strings)
       /\ \A i \in 1..Len(call.strings) :
              call.res.results[i] = Translate(call.strings[i], ES)

IsBulk(c) == c.kind = "bulk"

\* A google call that returned, with cache hits among the inputs and the
\* misses split over two bulk sub-calls.
C9_Witness ==
    /\ call.fn = "translate_batch"
    /\ call.api = GOOGLE
    /\ ~call.res.raised
    /\ Len(call.strings) > GOOGLE_BATCH_SIZE
    /\ Len(SelectSeq(call.res.calls, IsBulk)) = 2
    /\ Len(call.res.calls) = 2
    /\ Len(call.res.calls[1].texts) + Len(call.res.calls[2].texts) < Len(call.strings)

\* C10: for every provider that is called, a single-string translation on a
\* cache miss whose attempts all fail makes exactly 3 attempts, waits 1 then
\* 2 time units, and raises an error carrying the attempt count and the last
\* error; one that succeeds at attempt k after k - 1 failures returns the
\* translation after exactly k attempts.
C10_RetryPolicy ==
    (/\ call.fn = "translate_string"
     /\ call.api # AZURE
     /\ call.env.GOOGLE_CLOUD_PROJECT
     /\ ~call.res.hit)
    => /\ (\A k \in 1..MAX_RETRIES : call.outcomes[k] = "error")
            => /\ call.res.raised
               /\ call.res.attempts = 3
               /\ call.res.sleeps = <<1, 2>>
               /\ call.res.error.retries = 3
               /\ call.res.error.last = "ProviderError"
       /\ \A k \in 1..MAX_RETRIES :
            (/\ call.outcomes[k] = "ok"
             /\ \A j \in 1..(k - 1) : call.outcomes[j] = "error")
            => /\ ~call.res.raised
               /\ call.res.attempts = k
               /\ call.res.value = Translate(call.text, ES)

\* C11: when the credential of the selected provider is absent (for google,
\* the GOOGLE_CLOUD_PROJECT variable), the run stops at startup: no loop
\* iteration runs, no provider call is made, no catalog is written, and the
\* run does not end as a completed run.
C11_MissingCredentialFatal ==
    (args.api = GOOGLE /\ ~environ.GOOGLE_CLOUD_PROJECT)
    => /\ lastStep.kind \in {"none", "start"}
       /\ lastStep.calls = <<>>
       /\ outFile = <<>>
       /\ pc # "done"

\* C12: a run is in batch mode when the batch size is above 1 and the
\* provider is deepl or google, whatever --parallel says; otherwise in
\* parallel mode when there is more than one worker; otherwise in sequential
\* mode. Its loop iterations are those of that mode only: worker tasks exist
\* only in parallel mode and bulk calls are made only in batch mode.
C12_ModeSelection ==
    pc \in {"batch", "parallel", "sequential"}
    => /\ pc = (IF args.batch_size > 1 /\ args.api \in {DEEPL, GOOGLE} THEN "batch"
                ELSE IF args.parallel > 1 THEN "parallel"
                ELSE "sequential")
       /\ lastStep.kind \in (IF pc = "parallel" THEN {"start", "worker", "collect"}
                             ELSE {"start", pc})
       /\ (running # {} \/ finished # <<>>) => pc = "parallel"
       /\ \A j \in 1..Len(lastStep.calls) : lastStep.calls[j].kind = "bulk" => pc = "batch"

\* A chunk translated by a bulk call in a run started with --parallel 2.
C12_Witness ==
    /\ pc = "batch"
    /\ args.parallel > 1
    /\ lastStep.kind = "batch"
    /\ \E j \in 1..Len(lastStep.calls) : lastStep.calls[j].kind = "bulk"
    /\ running = {}
    /\ finished = <<>>

\* The cache file of a text under the run's language and provider exists in
\* the directory c and can be read.
Readable(c, text) ==
    LET cache_key == get_cache_key(text, args.target_lang, args.api)
    IN  /\ cache_key \in DOMAIN c
        /\ c[cache_key] # Corrupt
        /\ environ.io # "read_error"

\* The stub provider answers this call of the step.
CallSucceeds(cl) ==
    /\ args.api = GOOGLE => environ.GOOGLE_CLOUD_PROJECT
    /\ cl.kind = "bulk" => ~provider.bulkDown
    /\ \A m \in 1..Len(cl.texts) : cl.texts[m] \notin provider.bad

\* The step's calls j1 < j2 hand the same text to the provider.
CalledAgain(j1, j2) ==
    /\ j1 < j2
    /\ \E m1 \in 1..Len(lastStep.calls[j1].texts), m2 \in 1..Len(lastStep.calls[j2].texts) :
           lastStep.calls[j1].texts[m1] = lastStep.calls[j2].texts[m2]

\* The record of every text of call cl is in the cache with its translation.
Recorded(cl) ==
    \A m \in 1..Len(cl.texts) :
        LET cache_key == get_cache_key(cl.texts[m], args.target_lang, args.api)
        IN  /\ cache_key \in DOMAIN cache
            /\ cache[cache_key] = Translate(cl.texts[m], args.target_lang)

C14_FailedEntriesStayEmpty ==
    /\ \A e \in failed : po[e].msgstr = <<>>
    /\ pc = "done" => \A e \in failed : outFile[e].msgstr = <<>>

\* C15: with caching enabled and the cache storage failing, an entry whose
\* text the provider can translate is translated all the same: a record that
\* exists but cannot be read counts as a miss (the text goes to the
\* provider), a write that cannot open its file leaves the cache as it was,
\* and in both cases the entry gets the provider's translation and is not
\* among the failed ones.
C15_CacheFailuresNonFatal ==
    (~args.no_cache /\ environ.io # "ok" /\ args.api # AZURE)
    => \A k \in 1..Len(lastStep.entries) :
         LET e == lastStep.entries[k]
             t == inputPo[e].msgid
         IN  t \notin provider.bad
             => /\ lastStep.kind \in {"sequential", "batch", "collect"}
                   => (e \notin failed /\ po[e].msgstr = Translate(t, args.target_lang))
                /\ (/\ lastStep.kind \in {"sequential", "batch", "worker"}
                    /\ environ.io = "read_error")
                   => t \in HandedTexts
                /\ (/\ lastStep.kind \in {"sequential", "batch", "worker"}
                    /\ environ.io = "write_open_error")
                   => cache = lastStep.cacheBefore

\* An entry whose cache record existed and could not be read: its text went
\* to the provider and the entry has the provider's translation.
C15_Witness ==
    /\ ~args.no_cache
    /\ environ.io = "read_error"
    /\ lastStep.kind = "sequential"
    /\ ~lastStep.raised
    /\ \E e \in {lastStep.entries[1]} :
          /\ get_cache_key(po[e].msgid, args.target_lang, args.api)
                 \in DOMAIN lastStep.cacheBefore
          /\ po[e].msgid \in HandedTexts
          /\ po[e].msgstr = Translate(po[e].msgid, args.target_lang)

\* C16: isolate_html_and_variables applied to the masked text that
\* isolate_html_and_variables produced returns that masked text unchanged,
\* with no tag and no variable.
C16_MaskingIdempotent ==
    cPc \in {"isolated", "reinserted"}
    => isolate_html_and_variables(cIso.cleaned_text) =
           [cleaned_text |-> cIso.cleaned_text, html_tags |-> <<>>, variables |-> <<>>]

\* A text with a tag and a variable outside it, masked, and its masked text
\* masked again without change.
C16_Witness ==
    /\ cPc = "isolated"
    /\ Len(cIso.html_tags) > 0
    /\ Len(cIso.variables) > 0
    /\ Find(cIso.cleaned_text, HTML_PLACEHOLDER) > 0
    /\ Find(cIso.cleaned_text, VAR_PLACEHOLDER) > 0
    /\ cIso.cleaned_text # cText
    /\ isolate_html_and_variables(cIso.cleaned_text).cleaned_text = cIso.cleaned_text

\* C17: load_progress returns 0 when no progress file exists or the file
\* cannot be read; after save_progress(output, c) it returns c, for every
\* count c; after the file is cleared it returns 0 again.
C17_ProgressTracker ==
    call.fn = "load_progress" =>
        /\ (~progress.exists \/ ~progress.readable \/ call.io = "read_error")
           => call.result = 0
        /\ (/\ call.last.op = "save"
            /\ progress.exists /\ progress.readable /\ call.io = "ok")
           => call.result = call.last.translated_count
        /\ call.last.op = "clear" => call.result = 0

\* C17 as the code has it: the count comes back after a save_progress whose
\* write succeeded; a save_progress that could not open the file leaves the
\* earlier file, and its count, in place.
C17_ProgressTrackerWritten ==
    call.fn = "load_progress" =>
        /\ (~progress.exists \/ ~progress.readable \/ call.io = "read_error")
           => call.result = 0
        /\ (call.last.op = "save" /\ call.last.io = "ok" /\ call.io = "ok")
           => call.result = call.last.translated_count
        /\ (call.last.op = "save" /\ call.last.io = "write_dump_error")
           => call.result = 0
        /\ call.last.op = "clear" => call.result = 0

C17_Witness ==
    /\ call.fn = "load_progress"
    /\ call.io = "ok"
    /\ call.last.op = "save"
    /\ call.last.io = "ok"
    /\ call.last.translated_count > 0
    /\ call.result = call.last.translated_count

\* The entries of the untranslated set of this run that hold a translation.
Translated == { k \in 1..Len(untranslated) :
                    /\ po[untranslated[k]].msgstr # <<>>
                    /\ po[untranslated[k]].msgstr # None }

\* C18: whenever the Progress Marker is written, its value is the resume
\* offset plus the number of entries of the untranslated set that have
\* received a translation so far; entries that failed are not counted.
C18_MarkerCountsTranslated ==
    lastStep.checkpoint
        => progress.translated_count = start_index + Cardinality(Translated)

\* C18 in the runs where no entry has failed: the marker is the resume
\* offset plus the number of entries that hold a translation.
C18_MarkerWithoutFailures ==
    (lastStep.checkpoint /\ failed = {})
        => progress.translated_count = start_index + Cardinality(Translated)

\* C19: in parallel mode, under every interleaving of worker completions, a
\* step of a worker leaves the entries, the saved catalog and the Progress
\* Marker as they were, and a step of the main thread writes a worker's
\* result to the entry whose source text that worker translated and to no
\* other entry.
C19_SingleWriter ==
    [][/\ lastStep'.kind = "worker"
          => (po' = po /\ outFile' = outFile /\ progress' = progress)
       /\ (lastStep'.kind = "collect" /\ finished # <<>>)
          => \A i \in 1..Len(po) :
                po'[i] # po[i]
                    => /\ i = untranslated[Head(finished).task]
                       /\ po'[i].msgid = po[i].msgid
                       /\ po'[i].msgstr = Head(finished).translation]_vars

\* The main thread has written the result of a worker that finished before
\* an earlier submitted task did.
C19_Witness ==
    /\ lastStep.kind = "collect"
    /\ ~lastStep.raised
    /\ lastStep.entries[1] # untranslated[pos]
    /\ po[lastStep.entries[1]].msgstr
         = Translate(po[lastStep.entries[1]].msgid, args.target_lang)

\* C20: once a cache record exists for a key, no later operation changes its
\* stored value, in every mode: not parallel workers translating identical
\* source texts, not a chunk that contains the same source text twice, with a
\* provider that may return different results for the same input.
C20_RecordsImmutable ==
    [][\A k \in DOMAIN cache : k \in DOMAIN cache' /\ cache'[k] = cache[k]]_vars

\* The positions in the untranslated set of the tasks a worker holds or whose
\* result the main thread has not taken yet.
InFlight == running \cup { finished[i].task : i \in 1..Len(finished) }

\* C21: in every mode and every interleaving, when the Progress Marker is
\* written with value C, each of the first C entries of the untranslated set
\* has been processed: the loop has passed C entries and no entry at a
\* position up to C is pending or in flight.
C21_CheckpointPrefix ==
    lastStep.checkpoint
        => /\ start_index + pos >= progress.translated_count
           /\ pc = "parallel"
              => \A t \in InFlight : start_index + t > progress.translated_count

\* C21 outside parallel mode: the marker is written when the loop has passed
\* that many entries, one after the other.
C21_CheckpointPrefixInOrder ==
    (lastStep.checkpoint /\ pc # "parallel")
        => start_index + pos = progress.translated_count

\* The provider calls of the last step that carried the text of entry e.
CallsFor(e) ==
    LET t == isolate_html_and_variables(po[e].msgid).cleaned_text
        carries(c) == \E m \in 1..Len(c.texts) : c.texts[m] = t
    IN  Len(SelectSeq(lastStep.calls, carries))

\* One bulk call, the retries of the fallback inside translate_batch and the
\* retries of the fallback of the main loop.
MaxCallsPerEntry == 2 * MAX_RETRIES + 1

\* The run is over and every entry of the untranslated set has gone through
\* the loop: it holds a value or its failure was logged.
AllProcessed ==
    /\ pos >= Len(untranslated)
    /\ \A k \in 1..Len(untranslated) :
          po[untranslated[k]].msgstr # <<>> \/ untranslated[k] \in failed

NoTextReturned ==
    /\ call.fn = "translate_string"
    /\ ~call.res.hit
    /\ ~call.res.raised
    /\ \/ call.api = AZURE
       \/ call.res.attempts > 0 /\ call.outcomes[call.res.attempts] = "empty"

\* C23: when the provider produces no translated text without raising,
\* translate_string returns the source text itself and leaves the cache as
\* it was, and the main loop stores the source text as the entry's
\* translation, so that the entry is no longer among the untranslated ones.
C23_NoResultFallback ==
    NoTextReturned
        => /\ call.res.value = call.text
           /\ cache = call.cacheBefore
           /\ po[1].msgstr = po[1].msgid
           /\ untranslated_entries(po) = <<>>

\* A deepseek call with caching on whose first attempt fails and whose
\* second returns an empty text.
C23_Witness ==
    /\ NoTextReturned
    /\ call.api = DEEPSEEK
    /\ call.use_cache
    /\ call.res.attempts = 2
    /\ po[1].msgstr = call.text

====
